---- MODULE Spec2Model ----
(***************************************************************************)
(* The data-integrator charm (src/src/charm.py) as a state machine.        *)
(*                                                                         *)
(* State: the application configuration, the backend relations (for each   *)
(* relation endpoint its first and its second relation: the relation id,   *)
(* this application's outbound data bag and the backend's data bag), the   *)
(* peer application data bag, the unit's                                   *)
(* leadership and status, and the result of the last get-credentials       *)
(* action.  One action per hook handler of IntegratorCharm; the            *)
(* environment (operator, Juju, the backends) sets configuration, creates  *)
(* and removes relations, publishes credentials and moves leadership.      *)
(*                                                                         *)
(* A data bag or dictionary is a function from the keys it holds to their   *)
(* values; Python's None is the value None.                                *)
(***************************************************************************)
EXTENDS Integers, Sequences, FiniteSets, TLC

None == "None"

\* Python truthiness of Optional[str].
Truthy(v) == v # None /\ v # ""

\* ---------------------------------------------------------------- literals

MYSQL == "mysql"
MONGODB == "mongodb"
KAFKA == "kafka"
OPENSEARCH == "opensearch"
ETCD == "etcd"

\* The database families, in the order of the DATABASES list (the model keeps
\* the first two of the six).
DATABASES == <<MYSQL, MONGODB>>

DatabaseNames == {DATABASES[i] : i \in DOMAIN DATABASES}

Endpoints == DatabaseNames \cup {KAFKA, OPENSEARCH, ETCD}

\* Statuses = Enum("Statuses", ["ACTIVE", "BROKEN", "REMOVED"])
Statuses == {"ACTIVE", "BROKEN", "REMOVED"}

\* ------------------------------------------------------------------ bounds

\* Juju numbers relations 1, 2, ...; a behaviour creates at most MaxRelId.
MaxRelId == 2

\* ----------------------------------------------------------- configuration

Options ==
    {"database-name", "topic-name", "index-name", "prefix-name", "entity-type",
     "entity-permissions", "extra-user-roles", "extra-group-roles",
     "consumer-group-prefix", "mtls-cert", "requested-entities-secret"}

\* A PEM certificate as the operator passes it with escaped newlines, the same
\* base64-encoded, and the certificate text itself.
CertEscaped == "-----BEGIN CERTIFICATE-----\\nMIIB\\n-----END CERTIFICATE-----"
CertBase64 == "base64(-----BEGIN CERTIFICATE-----.MIIB.-----END CERTIFICATE-----)"
CertText == "-----BEGIN CERTIFICATE-----.MIIB.-----END CERTIFICATE-----"

\* Secret URIs: one the unit can read, one it cannot (ModelError).
SecretReadable == "secret:readable"
SecretDenied == "secret:denied"

\* --------------------------------------------------------------- data bags

\* A relation data bag without keys.
EmptyBag == [k \in {} |-> None]

\* dict.get(key)
Get(bag, key) == IF key \in DOMAIN bag THEN bag[key] ELSE None

\* No relation on an endpoint: id 0.
NoRelation == [id |-> 0, own |-> EmptyBag, remote |-> EmptyBag]

\* ------------------------------------------------------------------- state

VARIABLES
    config,       \* self.model.config
    has_secrets,  \* self.model.juju_version.has_secrets
    leader,       \* self.unit.is_leader()
    rel,          \* endpoint -> its first relation (id, own bag, remote bag)
    more,         \* endpoint -> its second relation, when it has two
    peer,         \* app_peer_data: relation name -> status name
    status,       \* self.unit.status
    raised,       \* the last handler ended with an unhandled exception
    result,       \* what the last get-credentials action reported
    pending,      \* the requirer event the library has still to emit
    nextId,       \* the id Juju gives the next relation
    profile       \* which endpoints and options the environment exercises

vars ==
    <<config, has_secrets, leader, rel, more, peer, status, raised, result, pending,
      nextId, profile>>

\* ------------------------------------------- the host and the requirer library

\* ops: the model lists the relations of an endpoint in the order of their ids
\* (requirer.relations).
relations(e) ==
    IF rel[e].id = 0 THEN <<>>
    ELSE IF more[e].id = 0 THEN <<rel[e].id>>
    ELSE <<rel[e].id, more[e].id>>

\* RequirerData.fetch_relation_field: a field of the backend's side.
fetch_relation_field(e, key) == Get(rel[e].remote, key)

\* RequirerData.fetch_my_relation_field: a field of this application's side,
\* which only the leader can read (None on the other units).
fetch_my_relation_field(e, key) == IF leader THEN Get(rel[e].own, key) ELSE None

\* RequirerData.fetch_relation_data(): every field the backend published on
\* the first relation of the endpoint.
fetch_relation_data(e) == rel[e].remote

\* A variant that accepts every topic.
is_topic_value_acceptable_All(topic) == TRUE

\* KafkaRequires.is_topic_value_acceptable: no wildcard in the first characters.
is_topic_value_acceptable(topic) == topic # "*"

\* RequirerData.update_relation_data: merge the dictionary `data` into this
\* application's side of the relation; ops removes a key that is assigned ""
\* (or no value).
update_relation_data(bag, data) ==
    [k \in {x \in DOMAIN bag \cup DOMAIN data : x \in DOMAIN data => Truthy(data[x])} |->
        IF k \in DOMAIN data THEN data[k] ELSE bag[k]]

\* Python's `x or ""`.
OrEmpty(v) == IF Truthy(v) THEN v ELSE ""

\* str(x) inside an f-string.
Str(v) == v

\* ------------------------------------------------------- charm: properties

database_name == Get(config, "database-name")
topic_name == Get(config, "topic-name")
index_name == Get(config, "index-name")
prefix == Get(config, "prefix-name")
entity_type == Get(config, "entity-type")
entity_permissions == Get(config, "entity-permissions")
extra_user_roles == Get(config, "extra-user-roles")
extra_group_roles == Get(config, "extra-group-roles")
consumer_group_prefix == Get(config, "consumer-group-prefix")

\* re.match(r"(-+(BEGIN|END) [A-Z ]+-+)", cert)
MatchesPemHeader(cert) == cert = CertEscaped \/ cert = CertText

mtls_client_cert ==
    LET cert == Get(config, "mtls-cert") IN
    IF ~Truthy(cert) THEN None
    ELSE IF MatchesPemHeader(cert) THEN CertText   \* cert.replace("\\n", "\n")
    ELSE CertText                                   \* base64.b64decode(cert)

\* The first key of the secret's content, or None when the option is unset or
\* the secret cannot be read (ModelError is caught).
requested_entities_secret_content ==
    IF Get(config, "requested-entities-secret") = SecretReadable /\ has_secrets
    THEN <<"entity1", "password1">>
    ELSE <<None, None>>

\* name -> first relation, for the database families that have one.
database_relations == {n \in DatabaseNames : Len(relations(n)) > 0}

kafka_relation == IF Len(relations(KAFKA)) > 0 THEN relations(KAFKA)[1] ELSE 0
opensearch_relation == IF Len(relations(OPENSEARCH)) > 0 THEN relations(OPENSEARCH)[1] ELSE 0
etcd_relation == IF has_secrets /\ Len(relations(ETCD)) > 0 THEN relations(ETCD)[1] ELSE 0

\* name -> negotiated database, for the families whose backend published one.
databases_active ==
    [n \in {m \in DatabaseNames :
               Len(relations(m)) > 0 /\ Truthy(fetch_relation_field(m, "database"))}
        |-> fetch_relation_field(n, "database")]

topic_active == IF kafka_relation # 0 THEN fetch_relation_field(KAFKA, "topic") ELSE None
index_active == IF opensearch_relation # 0 THEN fetch_relation_field(OPENSEARCH, "index") ELSE None
prefix_active == IF etcd_relation # 0 THEN fetch_my_relation_field(ETCD, "prefix") ELSE None

\* The first database family, in DATABASES order, that has a relation (0: none).
FirstRelatedDatabase ==
    LET idx == {i \in DOMAIN DATABASES : Len(relations(DATABASES[i])) > 0} IN
    IF idx = {} THEN 0 ELSE CHOOSE i \in idx : \A j \in idx : i <= j

_get_active_value(key) ==
    IF FirstRelatedDatabase # 0
    THEN fetch_relation_field(DATABASES[FirstRelatedDatabase], key)
    ELSE IF kafka_relation # 0 THEN fetch_relation_field(KAFKA, key)
    ELSE IF opensearch_relation # 0 THEN fetch_relation_field(OPENSEARCH, key)
    ELSE IF etcd_relation # 0 THEN fetch_my_relation_field(ETCD, key)
    ELSE None

entity_type_active == _get_active_value("entity-type")
extra_user_roles_active == _get_active_value("extra-user-roles")
extra_group_roles_active == _get_active_value("extra-group-roles")

_changes_role_info ==
    \/ Truthy(entity_type_active) /\ entity_type_active # entity_type
    \/ Truthy(extra_user_roles_active) /\ extra_user_roles_active # extra_user_roles
    \/ Truthy(extra_group_roles_active) /\ extra_group_roles_active # extra_group_roles

\* A variant that takes the existence of a relation for credentials.
_check_for_credentials_AnyRelation(e) == Len(relations(e)) > 0

_check_for_credentials(e) ==
    \E r \in {rel[e], more[e]} :
        /\ r.id # 0
        /\ \/ Truthy(Get(r.remote, "username")) /\ Truthy(Get(r.remote, "password"))
           \/ Truthy(Get(r.remote, "entity-name"))

\* A variant that goes by the relation status recorded in the peer data.
is_database_related_Recorded ==
    \E n \in DatabaseNames : Get(peer, n) \in {"ACTIVE", "BROKEN"}

\* A variant that takes a database relation for a related database.
is_database_related_AnyRelation == database_relations # {}

is_database_related == \E n \in DatabaseNames : _check_for_credentials(n)
is_kafka_related == _check_for_credentials(KAFKA)
is_opensearch_related == _check_for_credentials(OPENSEARCH)

is_etcd_related ==
    /\ etcd_relation # 0
    /\ fetch_relation_field(ETCD, "username") # None
    /\ fetch_relation_field(ETCD, "uris") # None
    /\ fetch_relation_field(ETCD, "endpoints") # None
    /\ fetch_relation_field(ETCD, "tls-ca") # None
    /\ fetch_relation_field(ETCD, "version") # None


\* ---------------------------------------------------------- charm: status

BlockedStatus(msg) == <<"blocked", msg>>
ActiveStatus == <<"active", "">>
\* The status of a unit before any handler has set one.
UnknownStatus == <<"unknown", "">>

RemoveRelationMessage(name_type, active_name) ==
    "To change " \o name_type \o ": " \o Str(active_name)
        \o ", please remove relation and add it again"

\* list(self.databases_active.values())[0] if self.databases_active else None
FirstActiveDatabase ==
    LET idx == {i \in DOMAIN DATABASES : DATABASES[i] \in DOMAIN databases_active} IN
    IF idx = {} THEN None
    ELSE databases_active[DATABASES[CHOOSE i \in idx : \A j \in idx : i <= j]]

\* The mismatch conditions of get_status, in the order it tests them.
KafkaMismatch == is_kafka_related /\ topic_active # topic_name
OpenSearchMismatch == is_opensearch_related /\ index_active # index_name
EtcdMismatch == is_etcd_related /\ prefix_active # prefix
DatabaseMismatch ==
    /\ is_database_related
    /\ \E n \in DOMAIN databases_active : databases_active[n] # database_name

\* A variant that asks for a relation before it looks at the topic.
get_status_RelateFirst ==
    IF /\ Truthy(Get(config, "requested-entities-secret"))
       /\ ~has_secrets
    THEN BlockedStatus("Cannot use requested-entities-secret without secrets")
    ELSE IF /\ Truthy(Get(config, "requested-entities-secret"))
            /\ ~Truthy(requested_entities_secret_content[1])
    THEN BlockedStatus("Unable to access requested-entities-secret")
    ELSE IF ~(Truthy(topic_name) \/ Truthy(database_name) \/ Truthy(index_name) \/ Truthy(prefix))
    THEN BlockedStatus("Please specify either topic, index, database name, or prefix")
    ELSE IF ~(is_database_related \/ is_kafka_related \/ is_opensearch_related \/ is_etcd_related)
    THEN BlockedStatus("Please relate the data-integrator with the desired product")
    ELSE IF Truthy(topic_name) /\ ~is_topic_value_acceptable(topic_name)
    THEN BlockedStatus("Please pass an acceptable topic value")
    ELSE IF _changes_role_info
    THEN BlockedStatus("To change role info, please remove relation and add it again")
    ELSE IF KafkaMismatch
    THEN BlockedStatus(RemoveRelationMessage("topic", topic_active))
    ELSE IF OpenSearchMismatch
    THEN BlockedStatus(RemoveRelationMessage("index", index_active))
    ELSE IF EtcdMismatch
    THEN BlockedStatus(RemoveRelationMessage("prefix", prefix_active))
    ELSE IF DatabaseMismatch
    THEN BlockedStatus(RemoveRelationMessage("database name", FirstActiveDatabase))
    ELSE ActiveStatus

\* A variant with a waiting status while nothing is related.
get_status_WaitingUnrelated ==
    IF /\ Truthy(Get(config, "requested-entities-secret"))
       /\ ~has_secrets
    THEN BlockedStatus("Cannot use requested-entities-secret without secrets")
    ELSE IF /\ Truthy(Get(config, "requested-entities-secret"))
            /\ ~Truthy(requested_entities_secret_content[1])
    THEN BlockedStatus("Unable to access requested-entities-secret")
    ELSE IF /\ ~(Truthy(topic_name) \/ Truthy(database_name) \/ Truthy(index_name) \/ Truthy(prefix))
            /\ \A e \in Endpoints : Len(relations(e)) = 0
    THEN <<"waiting", "Please specify either topic, index, database name, or prefix">>
    ELSE IF ~(Truthy(topic_name) \/ Truthy(database_name) \/ Truthy(index_name) \/ Truthy(prefix))
    THEN BlockedStatus("Please specify either topic, index, database name, or prefix")
    ELSE IF Truthy(topic_name) /\ ~is_topic_value_acceptable(topic_name)
    THEN BlockedStatus("Please pass an acceptable topic value")
    ELSE IF ~(is_database_related \/ is_kafka_related \/ is_opensearch_related \/ is_etcd_related)
    THEN BlockedStatus("Please relate the data-integrator with the desired product")
    ELSE IF _changes_role_info
    THEN BlockedStatus("To change role info, please remove relation and add it again")
    ELSE IF KafkaMismatch
    THEN BlockedStatus(RemoveRelationMessage("topic", topic_active))
    ELSE IF OpenSearchMismatch
    THEN BlockedStatus(RemoveRelationMessage("index", index_active))
    ELSE IF EtcdMismatch
    THEN BlockedStatus(RemoveRelationMessage("prefix", prefix_active))
    ELSE IF DatabaseMismatch
    THEN BlockedStatus(RemoveRelationMessage("database name", FirstActiveDatabase))
    ELSE ActiveStatus

\* A variant that tests the names before the role info.
get_status_ConflictFirst ==
    IF /\ Truthy(Get(config, "requested-entities-secret"))
       /\ ~has_secrets
    THEN BlockedStatus("Cannot use requested-entities-secret without secrets")
    ELSE IF /\ Truthy(Get(config, "requested-entities-secret"))
            /\ ~Truthy(requested_entities_secret_content[1])
    THEN BlockedStatus("Unable to access requested-entities-secret")
    ELSE IF ~(Truthy(topic_name) \/ Truthy(database_name) \/ Truthy(index_name) \/ Truthy(prefix))
    THEN BlockedStatus("Please specify either topic, index, database name, or prefix")
    ELSE IF Truthy(topic_name) /\ ~is_topic_value_acceptable(topic_name)
    THEN BlockedStatus("Please pass an acceptable topic value")
    ELSE IF ~(is_database_related \/ is_kafka_related \/ is_opensearch_related \/ is_etcd_related)
    THEN BlockedStatus("Please relate the data-integrator with the desired product")
    ELSE IF KafkaMismatch
    THEN BlockedStatus(RemoveRelationMessage("topic", topic_active))
    ELSE IF OpenSearchMismatch
    THEN BlockedStatus(RemoveRelationMessage("index", index_active))
    ELSE IF EtcdMismatch
    THEN BlockedStatus(RemoveRelationMessage("prefix", prefix_active))
    ELSE IF DatabaseMismatch
    THEN BlockedStatus(RemoveRelationMessage("database name", FirstActiveDatabase))
    ELSE IF _changes_role_info
    THEN BlockedStatus("To change role info, please remove relation and add it again")
    ELSE ActiveStatus

get_status ==
    IF /\ Truthy(Get(config, "requested-entities-secret"))
       /\ ~has_secrets
    THEN BlockedStatus("Cannot use requested-entities-secret without secrets")
    ELSE IF /\ Truthy(Get(config, "requested-entities-secret"))
            /\ ~Truthy(requested_entities_secret_content[1])
    THEN BlockedStatus("Unable to access requested-entities-secret")
    ELSE IF ~(Truthy(topic_name) \/ Truthy(database_name) \/ Truthy(index_name) \/ Truthy(prefix))
    THEN BlockedStatus("Please specify either topic, index, database name, or prefix")
    ELSE IF Truthy(topic_name) /\ ~is_topic_value_acceptable(topic_name)
    THEN BlockedStatus("Please pass an acceptable topic value")
    ELSE IF ~(is_database_related \/ is_kafka_related \/ is_opensearch_related \/ is_etcd_related)
    THEN BlockedStatus("Please relate the data-integrator with the desired product")
    ELSE IF _changes_role_info
    THEN BlockedStatus("To change role info, please remove relation and add it again")
    ELSE IF KafkaMismatch
    THEN BlockedStatus(RemoveRelationMessage("topic", topic_active))
    ELSE IF OpenSearchMismatch
    THEN BlockedStatus(RemoveRelationMessage("index", index_active))
    ELSE IF EtcdMismatch
    THEN BlockedStatus(RemoveRelationMessage("prefix", prefix_active))
    ELSE IF DatabaseMismatch
    THEN BlockedStatus(RemoveRelationMessage("database name", FirstActiveDatabase))
    ELSE ActiveStatus

\* ------------------------------------------------- charm: outbound data

\* A variant that sends the user roles only when the relation holds none.
database_relation_data_Alternating ==
    [k \in {"database", "extra-user-roles"} |->
        CASE k = "database" -> database_name
          [] k = "extra-user-roles" ->
                IF \E n \in DatabaseNames : "extra-user-roles" \in DOMAIN rel[n].own
                THEN "" ELSE OrEmpty(extra_user_roles)]

\* The dictionaries the _on_config_changed_<kind> methods write.
database_relation_data ==
    IF Truthy(entity_type)
    THEN [k \in {"database", "entity-type", "entity-permissions", "extra-user-roles",
                 "extra-group-roles"} |->
            CASE k = "database" -> database_name
              [] k = "entity-type" -> entity_type
              [] k = "entity-permissions" -> OrEmpty(entity_permissions)
              [] k = "extra-user-roles" -> OrEmpty(extra_user_roles)
              [] k = "extra-group-roles" -> OrEmpty(extra_group_roles)]
    ELSE [k \in {"database", "extra-user-roles"} |->
            CASE k = "database" -> database_name
              [] k = "extra-user-roles" -> OrEmpty(extra_user_roles)]

topic_relation_data ==
    IF Truthy(entity_type)
    THEN [k \in {"topic", "entity-type", "entity-permissions", "extra-user-roles",
                 "extra-group-roles"} |->
            CASE k = "topic" -> topic_name
              [] k = "entity-type" -> entity_type
              [] k = "entity-permissions" -> OrEmpty(entity_permissions)
              [] k = "extra-user-roles" -> OrEmpty(extra_user_roles)
              [] k = "extra-group-roles" -> OrEmpty(extra_group_roles)]
    ELSE [k \in {"topic", "extra-user-roles", "consumer-group-prefix"} |->
            CASE k = "topic" -> topic_name
              [] k = "extra-user-roles" -> OrEmpty(extra_user_roles)
              [] k = "consumer-group-prefix" -> OrEmpty(consumer_group_prefix)]

index_relation_data ==
    IF Truthy(entity_type)
    THEN [k \in {"index", "entity-type", "entity-permissions", "extra-user-roles",
                 "extra-group-roles"} |->
            CASE k = "index" -> index_name
              [] k = "entity-type" -> entity_type
              [] k = "entity-permissions" -> OrEmpty(entity_permissions)
              [] k = "extra-user-roles" -> OrEmpty(extra_user_roles)
              [] k = "extra-group-roles" -> OrEmpty(extra_group_roles)]
    ELSE [k \in {"index", "extra-user-roles"} |->
            CASE k = "index" -> index_name
              [] k = "extra-user-roles" -> OrEmpty(extra_user_roles)]

\* update_relation_data(rel.id, {"prefix": ...}) then set_mtls_cert(rel.id, cert)
prefix_relation_data ==
    [k \in {"prefix", "mtls-cert"} |->
        CASE k = "prefix" -> prefix
          [] k = "mtls-cert" -> mtls_client_cert]

\* A variant of the database guard without the test of the configured name.
PropagatesDatabase_Unnamed == DOMAIN databases_active = {}

\* A variant of the database guard without the test of databases_active.
PropagatesDatabase_Unguarded == Truthy(database_name)

\* The guards of _on_config_changed's four propagation steps.
PropagatesDatabase == Truthy(database_name) /\ DOMAIN databases_active = {}
PropagatesTopic == Truthy(topic_name) /\ ~Truthy(topic_active)
PropagatesIndex == Truthy(index_name) /\ ~Truthy(index_active)
PropagatesPrefix == Truthy(prefix) /\ (~Truthy(prefix_active) \/ Truthy(mtls_client_cert))

\* _on_config_changed_prefix uses self.etcd, which __init__ sets only when the
\* host has secrets: AttributeError otherwise.
ConfigChangedRaises == leader /\ PropagatesPrefix /\ ~has_secrets

\* This application's side of the relation on endpoint e after the leader ran
\* the propagation steps of _on_config_changed.
Propagated(e) ==
    IF Len(relations(e)) = 0 THEN rel[e].own
    ELSE IF e \in DatabaseNames /\ PropagatesDatabase
    THEN update_relation_data(rel[e].own, database_relation_data)
    ELSE IF e = KAFKA /\ PropagatesTopic /\ is_topic_value_acceptable(topic_name)
    THEN update_relation_data(rel[e].own, topic_relation_data)
    ELSE IF e = OPENSEARCH /\ PropagatesIndex
    THEN update_relation_data(rel[e].own, index_relation_data)
    ELSE IF e = ETCD /\ PropagatesPrefix
    THEN update_relation_data(rel[e].own, prefix_relation_data)
    ELSE rel[e].own

\* The same for the endpoint's second relation: the database step writes to
\* the first relation of a family only (database_relations), the other steps
\* to every relation of the requirer.
PropagatedMore(e) ==
    IF more[e].id = 0 THEN more[e].own
    ELSE IF e = KAFKA /\ PropagatesTopic /\ is_topic_value_acceptable(topic_name)
    THEN update_relation_data(more[e].own, topic_relation_data)
    ELSE IF e = OPENSEARCH /\ PropagatesIndex
    THEN update_relation_data(more[e].own, index_relation_data)
    ELSE IF e = ETCD /\ PropagatesPrefix
    THEN update_relation_data(more[e].own, prefix_relation_data)
    ELSE more[e].own

\* A variant without the leadership test.
ConfigChangedRelations_AnyUnit ==
    IF ConfigChangedRaises THEN rel
    ELSE [e \in Endpoints |-> [rel[e] EXCEPT !.own = Propagated(e)]]

\* The effect of _on_config_changed on the relations: nothing on a unit that is
\* not the leader; nothing is committed by a hook that raises.
ConfigChangedRelations ==
    IF ~leader \/ ConfigChangedRaises THEN rel
    ELSE [e \in Endpoints |-> [rel[e] EXCEPT !.own = Propagated(e)]]

ConfigChangedMore ==
    IF ~leader \/ ConfigChangedRaises THEN more
    ELSE [e \in Endpoints |-> [more[e] EXCEPT !.own = PropagatedMore(e)]]


\* ------------------------------------------------------ charm: the action

\* A variant that leaves the password out.
PublishedDict_NoPassword(e) ==
    [k \in DOMAIN fetch_relation_data(e) \ {"password"} |-> fetch_relation_data(e)[k]]

\* list(requirer.fetch_relation_data().values())[0]: the fields the backend
\* published on the endpoint's first relation.
PublishedDict(e) == fetch_relation_data(e)

EtcdDict ==
    [k \in {"prefix", "uris", "endpoints", "username", "tls-ca", "version"} |->
        IF k = "prefix" THEN prefix_active ELSE fetch_relation_field(ETCD, k)]

\* The endpoints _on_get_credentials_action puts a sub-object in the result for.
ResultEndpoints ==
    (DOMAIN databases_active)
        \cup (IF is_kafka_related THEN {KAFKA} ELSE {})
        \cup (IF is_opensearch_related THEN {OPENSEARCH} ELSE {})
        \cup (IF is_etcd_related THEN {ETCD} ELSE {})

\* No action has run yet.
NotInvoked == [invoked |-> FALSE, ok |-> FALSE, fail |-> "", subs |-> EmptyBag]

\* event.fail(msg); event.set_results({"ok": False})
Failed(msg) == [invoked |-> TRUE, ok |-> FALSE, fail |-> msg, subs |-> EmptyBag]

\* A variant that tests the relations before the configuration.
get_credentials_result_RelationsFirst ==
    IF ~(is_database_related \/ is_kafka_related \/ is_opensearch_related \/ is_etcd_related)
    THEN Failed("The action can be run only after relation is created.")
    ELSE IF ~(Truthy(database_name) \/ Truthy(topic_name) \/ Truthy(index_name) \/ Truthy(prefix))
    THEN Failed("The database name, topic name, index name, or prefix is not specified in the config.")
    ELSE [invoked |-> TRUE, ok |-> TRUE, fail |-> "",
          subs |-> [e \in ResultEndpoints |-> IF e = ETCD THEN EtcdDict ELSE PublishedDict(e)]]

\* A variant whose relation test goes by the negotiated databases.
get_credentials_result_NegotiatedGate ==
    IF ~(Truthy(database_name) \/ Truthy(topic_name) \/ Truthy(index_name) \/ Truthy(prefix))
    THEN Failed("The database name, topic name, index name, or prefix is not specified in the config.")
    ELSE IF ~(DOMAIN databases_active # {} \/ is_kafka_related \/ is_opensearch_related
                 \/ is_etcd_related)
    THEN Failed("The action can be run only after relation is created.")
    ELSE [invoked |-> TRUE, ok |-> TRUE, fail |-> "",
          subs |-> [e \in ResultEndpoints |-> IF e = ETCD THEN EtcdDict ELSE PublishedDict(e)]]

\* What event.fail / event.set_results receive: ok, and the sub-objects by
\* relation name.
get_credentials_result ==
    IF ~(Truthy(database_name) \/ Truthy(topic_name) \/ Truthy(index_name) \/ Truthy(prefix))
    THEN Failed("The database name, topic name, index name, or prefix is not specified in the config.")
    ELSE IF ~(is_database_related \/ is_kafka_related \/ is_opensearch_related \/ is_etcd_related)
    THEN Failed("The action can be run only after relation is created.")
    ELSE [invoked |-> TRUE, ok |-> TRUE, fail |-> "",
          subs |-> [e \in ResultEndpoints |-> IF e = ETCD THEN EtcdDict ELSE PublishedDict(e)]]

\* --------------------------------------------------------- the environment

\* An endpoint's resource-name key in the relation data.
NameKey(e) ==
    CASE e \in DatabaseNames -> "database"
      [] e = KAFKA -> "topic"
      [] e = OPENSEARCH -> "index"
      [] e = ETCD -> "prefix"

\* The values the charm constructs the requirer of endpoint e with (__init__,
\* from the configuration).
RequirerArguments(e) ==
    IF e \in DatabaseNames
    THEN [k \in {"database", "entity-type", "entity-permissions", "extra-user-roles",
                 "extra-group-roles"} |->
            CASE k = "database" -> OrEmpty(database_name)
              [] k = "entity-type" -> OrEmpty(entity_type)
              [] k = "entity-permissions" -> OrEmpty(entity_permissions)
              [] k = "extra-user-roles" -> OrEmpty(extra_user_roles)
              [] k = "extra-group-roles" -> OrEmpty(extra_group_roles)]
    ELSE IF e = KAFKA
    THEN [k \in {"topic", "entity-type", "entity-permissions", "extra-user-roles",
                 "extra-group-roles", "consumer-group-prefix"} |->
            CASE k = "topic" -> (IF topic_name # None /\ is_topic_value_acceptable(topic_name)
                                 THEN topic_name ELSE "")
              [] k = "entity-type" -> OrEmpty(entity_type)
              [] k = "entity-permissions" -> OrEmpty(entity_permissions)
              [] k = "extra-user-roles" -> OrEmpty(extra_user_roles)
              [] k = "extra-group-roles" -> OrEmpty(extra_group_roles)
              [] k = "consumer-group-prefix" -> OrEmpty(consumer_group_prefix)]
    ELSE IF e = OPENSEARCH
    THEN [k \in {"index", "entity-type", "entity-permissions", "extra-user-roles",
                 "extra-group-roles"} |->
            CASE k = "index" -> OrEmpty(index_name)
              [] k = "entity-type" -> OrEmpty(entity_type)
              [] k = "entity-permissions" -> OrEmpty(entity_permissions)
              [] k = "extra-user-roles" -> OrEmpty(extra_user_roles)
              [] k = "extra-group-roles" -> OrEmpty(extra_group_roles)]
    ELSE [k \in {"prefix", "mtls-cert"} |->
            CASE k = "prefix" -> OrEmpty(prefix)
              [] k = "mtls-cert" -> mtls_client_cert]

\* What the requirer library writes when the relation is created: the values
\* the requirer was constructed with, those that are set.
InitialOwn(e) == update_relation_data(EmptyBag, RequirerArguments(e))

\* A credential value the backend generates for relation id.
Generated(what, id) == what \o "-" \o ToString(id)

\* What a backend publishes on relation e: its endpoints and credentials for a
\* user, or for an entity when an entity type was requested, with the resource
\* name it was asked for (withName) or without it, and with the role fields it
\* was asked for when it repeats them; etcd publishes its connection fields,
\* all of them (withName) or all but the version.
RoleKeys == {"entity-type", "entity-permissions", "extra-user-roles", "extra-group-roles"}

PublishedKeys(e, withName) ==
    IF e = ETCD
    THEN {"username", "uris", "endpoints", "tls-ca"} \cup (IF withName THEN {"version"} ELSE {})
    ELSE {"endpoints"}
            \cup (IF Truthy(Get(rel[e].own, "entity-type"))
                  THEN {"entity-name", "entity-password"} ELSE {"username", "password"})
            \cup (IF withName THEN {NameKey(e)} ELSE {})
            \cup (IF profile.echo THEN RoleKeys \cap DOMAIN rel[e].own ELSE {})

Published(e, withName) ==
    [k \in DOMAIN rel[e].remote \cup PublishedKeys(e, withName) |->
        IF k \notin PublishedKeys(e, withName) THEN rel[e].remote[k]
        ELSE IF k = NameKey(e) \/ k \in RoleKeys THEN Get(rel[e].own, k)
        ELSE IF k = "version" THEN "3.5"
        ELSE Generated(k, rel[e].id)]

\* The same on the endpoint's second relation.
PublishedKeysMore(e, withName) ==
    IF e = ETCD
    THEN {"username", "uris", "endpoints", "tls-ca"} \cup (IF withName THEN {"version"} ELSE {})
    ELSE {"endpoints"}
            \cup (IF Truthy(Get(more[e].own, "entity-type"))
                  THEN {"entity-name", "entity-password"} ELSE {"username", "password"})
            \cup (IF withName THEN {NameKey(e)} ELSE {})
            \cup (IF profile.echo THEN RoleKeys \cap DOMAIN more[e].own ELSE {})

PublishedMore(e, withName) ==
    [k \in DOMAIN more[e].remote \cup PublishedKeysMore(e, withName) |->
        IF k \notin PublishedKeysMore(e, withName) THEN more[e].remote[k]
        ELSE IF k = NameKey(e) \/ k \in RoleKeys THEN Get(more[e].own, k)
        ELSE IF k = "version" THEN "3.5"
        ELSE Generated(k, more[e].id)]

EtcdComplete(bag) ==
    {"username", "uris", "endpoints", "tls-ca", "version"} \subseteq DOMAIN bag

NoEvent == [type |-> "none", e |-> ""]

\* The event the requirer library emits for a change of the backend's data
\* from old to new (relation-changed): created/ready when the credentials are
\* added, entity_created when an entity name is added.
EventFor(e, old, new) ==
    IF e = ETCD
    THEN (IF has_secrets /\ ~EtcdComplete(old) /\ EtcdComplete(new)
          THEN [type |-> "created", e |-> e] ELSE NoEvent)
    ELSE IF {"username", "password"} \subseteq (DOMAIN new \ DOMAIN old)
    THEN [type |-> "created", e |-> e]
    ELSE IF "entity-name" \in (DOMAIN new \ DOMAIN old)
    THEN [type |-> "entity_created", e |-> e]
    ELSE NoEvent


\* What the environment exercises in a behaviour: the endpoints that get
\* related (eps), the option settings the operator makes (sets, pairs of an
\* option and a value), whether the host has secrets, whether the leadership
\* moves (elect), whether the operator runs the action, whether the
\* backends repeat the requested role fields in what they publish (echo), and
\* whether an endpoint gets a second relation (second).
Setting(o, vs) == {<<o, v>> : v \in vs}

Profiles ==
    {[eps |-> {MYSQL},
      sets |-> Setting("database-name", {None, "foo", "foo1"}),
      secrets |-> {TRUE}, elect |-> TRUE, action |-> TRUE, echo |-> FALSE, second |-> FALSE],
     [eps |-> {KAFKA},
      sets |-> Setting("topic-name", {None, "bar", "bar1", "*"}),
      secrets |-> {TRUE}, elect |-> TRUE, action |-> TRUE, echo |-> FALSE, second |-> FALSE],
     [eps |-> {OPENSEARCH},
      sets |-> Setting("index-name", {None, "idx", "idx1"}),
      secrets |-> {TRUE}, elect |-> TRUE, action |-> TRUE, echo |-> FALSE, second |-> FALSE],
     [eps |-> {ETCD},
      sets |-> Setting("prefix-name", {None, "/test/", "/test1/"}),
      secrets |-> {TRUE}, elect |-> TRUE, action |-> TRUE, echo |-> FALSE, second |-> FALSE],
     [eps |-> {ETCD},
      sets |-> Setting("prefix-name", {"/test/", "/test1/"})
                 \cup Setting("mtls-cert", {None, CertEscaped, CertBase64}),
      secrets |-> BOOLEAN, elect |-> TRUE, action |-> FALSE, echo |-> FALSE, second |-> FALSE],
     [eps |-> {MYSQL, KAFKA},
      sets |-> Setting("database-name", {"foo"}) \cup Setting("topic-name", {"bar"}),
      secrets |-> {TRUE}, elect |-> FALSE, action |-> TRUE, echo |-> FALSE, second |-> FALSE],
     [eps |-> {MYSQL},
      sets |-> Setting("requested-entities-secret", {None, SecretReadable, SecretDenied})
                 \cup Setting("entity-type", {None, "USER"}),
      secrets |-> BOOLEAN, elect |-> TRUE, action |-> TRUE, echo |-> FALSE, second |-> FALSE],
     [eps |-> {MYSQL},
      sets |-> Setting("database-name", {"foo", "foo1"}) \cup Setting("topic-name", {"bar"})
                 \cup Setting("entity-type", {"USER"})
                 \cup Setting("extra-user-roles", {"admin"})
                 \cup Setting("extra-group-roles", {"custom_role_1"}),
      secrets |-> {TRUE}, elect |-> FALSE, action |-> FALSE, echo |-> FALSE, second |-> FALSE],
     [eps |-> {MYSQL},
      sets |-> Setting("database-name", {"foo", "foo1"})
                 \cup Setting("extra-user-roles", {None, "admin", "reader"})
                 \cup Setting("entity-permissions", {None, "perm"}),
      secrets |-> {TRUE}, elect |-> FALSE, action |-> FALSE, echo |-> TRUE, second |-> FALSE],
     [eps |-> {MYSQL},
      sets |-> Setting("requested-entities-secret", {None, SecretReadable, SecretDenied})
                 \cup Setting("database-name", {None, "foo"})
                 \cup Setting("prefix-name", {None, "/test/"}),
      secrets |-> BOOLEAN, elect |-> FALSE, action |-> FALSE, echo |-> FALSE, second |-> FALSE],
     [eps |-> {KAFKA},
      sets |-> Setting("requested-entities-secret", {None, SecretReadable, SecretDenied})
                 \cup Setting("topic-name", {"bar", "*"}),
      secrets |-> BOOLEAN, elect |-> FALSE, action |-> FALSE, echo |-> FALSE, second |-> FALSE],
     [eps |-> {MYSQL},
      sets |-> Setting("database-name", {"foo"}),
      secrets |-> {TRUE}, elect |-> FALSE, action |-> FALSE, echo |-> FALSE, second |-> TRUE],
     [eps |-> {KAFKA},
      sets |-> Setting("topic-name", {"bar"}),
      secrets |-> {TRUE}, elect |-> FALSE, action |-> FALSE, echo |-> FALSE, second |-> TRUE],
     [eps |-> {MYSQL, MONGODB},
      sets |-> Setting("database-name", {"foo", "foo1"}),
      secrets |-> {TRUE}, elect |-> FALSE, action |-> FALSE, echo |-> FALSE, second |-> FALSE],
     [eps |-> {MYSQL},
      sets |-> Setting("database-name", {"foo"}) \cup Setting("topic-name", {"bar", "bar1", "*"}),
      secrets |-> {TRUE}, elect |-> FALSE, action |-> FALSE, echo |-> FALSE, second |-> FALSE],
     [eps |-> {ETCD},
      sets |-> Setting("prefix-name", {"/test/"}) \cup Setting("index-name", {"idx", "idx1"}),
      secrets |-> {TRUE}, elect |-> TRUE, action |-> FALSE, echo |-> FALSE, second |-> FALSE]}

\* ----------------------------------------------------------------- actions

Init ==
    /\ config = EmptyBag
    /\ leader \in BOOLEAN
    /\ rel = [e \in Endpoints |-> NoRelation]
    /\ more = [e \in Endpoints |-> NoRelation]
    /\ peer = EmptyBag
    /\ status = UnknownStatus
    /\ raised = FALSE
    /\ result = NotInvoked
    /\ pending = NoEvent
    /\ nextId = 1
    /\ profile \in Profiles
    /\ has_secrets \in profile.secrets

\* The host handles one notification at a time: the event the library emits
\* for a relation change is handled before anything else happens.
Idle == pending = NoEvent

\* juju config <option>=<value>, or --reset <option> for the value None
SetConfig(o, v) ==
    /\ Idle
    /\ Get(config, o) # v
    /\ config' = [k \in (DOMAIN config \cup {o}) \ (IF v = None THEN {o} ELSE {}) |->
                     IF k = o THEN v ELSE config[k]]
    /\ UNCHANGED <<has_secrets, leader, rel, more, peer, status, raised, result, pending,
                   nextId, profile>>

\* Juju moves the leadership to or away from this unit.
SetLeader ==
    /\ Idle
    /\ profile.elect
    /\ leader' = ~leader
    /\ UNCHANGED <<config, has_secrets, rel, more, peer, status, raised, result, pending,
                   nextId, profile>>

\* _on_config_changed
OnConfigChanged ==
    /\ Idle
    /\ status' = get_status
    /\ rel' = ConfigChangedRelations
    /\ more' = ConfigChangedMore
    /\ raised' = ConfigChangedRaises
    /\ UNCHANGED <<config, has_secrets, leader, peer, result, pending, nextId, profile>>

\* A variant that leaves the status alone.
OnUpdateStatus_StatusUnchanged ==
    /\ Idle
    /\ raised' = FALSE
    /\ UNCHANGED <<config, has_secrets, leader, rel, more, peer, status, result, pending, nextId,
                   profile>>

\* _on_update_status
OnUpdateStatus ==
    /\ Idle
    /\ status' = get_status
    /\ raised' = FALSE
    /\ UNCHANGED <<config, has_secrets, leader, rel, more, peer, result, pending, nextId, profile>>

\* Juju creates a relation on endpoint e, its first or its second; on relation-created the requirer
\* library, on the leader, writes the requested values.  Without secrets the
\* charm has no etcd requirer.
RelationCreated(e) ==
    /\ Idle
    /\ nextId <= MaxRelId
    /\ LET created == [id |-> nextId,
                       own |-> IF leader /\ (e # ETCD \/ has_secrets)
                               THEN InitialOwn(e) ELSE EmptyBag,
                       remote |-> EmptyBag]
       IN \/ /\ rel[e].id = 0
             /\ rel' = [rel EXCEPT ![e] = created]
             /\ more' = more
          \/ /\ rel[e].id # 0
             /\ more[e].id = 0
             /\ profile.second
             /\ more' = [more EXCEPT ![e] = created]
             /\ rel' = rel
    /\ nextId' = nextId + 1
    /\ raised' = FALSE
    /\ UNCHANGED <<config, has_secrets, leader, peer, status, result, pending, profile>>

\* The backend of relation e publishes; the library's relation-changed handler
\* will emit the requirer event.
RemotePublish(e, withName) ==
    /\ Idle
    /\ rel[e].id # 0
    /\ withName /\ e # ETCD => Truthy(Get(rel[e].own, NameKey(e)))
    /\ Published(e, withName) # rel[e].remote
    /\ rel' = [rel EXCEPT ![e].remote = Published(e, withName)]
    /\ pending' = EventFor(e, rel[e].remote, Published(e, withName))
    /\ UNCHANGED <<config, has_secrets, leader, more, peer, status, raised, result, nextId,
                   profile>>

\* The backend of the second relation on e publishes.
RemotePublishMore(e, withName) ==
    /\ Idle
    /\ more[e].id # 0
    /\ withName /\ e # ETCD => Truthy(Get(more[e].own, NameKey(e)))
    /\ PublishedMore(e, withName) # more[e].remote
    /\ more' = [more EXCEPT ![e].remote = PublishedMore(e, withName)]
    /\ pending' = EventFor(e, more[e].remote, PublishedMore(e, withName))
    /\ UNCHANGED <<config, has_secrets, leader, rel, peer, status, raised, result, nextId,
                   profile>>

\* _update_relation_status(event, status)
set_secret(key, value) == [k \in DOMAIN peer \cup {key} |-> IF k = key THEN value ELSE peer[k]]

\* A variant without the leadership test.
UpdatedPeer_AnyUnit(e, st) == set_secret(e, st)

UpdatedPeer(e, st) == IF leader THEN set_secret(e, st) ELSE peer

\* A variant that records the relation's status and leaves the unit's alone.
OnCreated_StatusUnchanged ==
    /\ pending.type = "created"
    /\ peer' = UpdatedPeer(pending.e, "ACTIVE")
    /\ pending' = NoEvent
    /\ UNCHANGED <<config, has_secrets, leader, rel, more, status, raised, result, nextId, profile>>

\* _on_database_created, _on_topic_created, _on_index_created, _on_etcd_ready:
\* _on_config_changed, then the relation's status ACTIVE in the peer data.
OnCreated ==
    /\ pending.type = "created"
    /\ status' = get_status
    /\ rel' = ConfigChangedRelations
    /\ more' = ConfigChangedMore
    /\ raised' = ConfigChangedRaises
    /\ peer' = IF ConfigChangedRaises THEN peer ELSE UpdatedPeer(pending.e, "ACTIVE")
    /\ pending' = NoEvent
    /\ UNCHANGED <<config, has_secrets, leader, result, nextId, profile>>

\* _on_entity_created
OnEntityCreated ==
    /\ pending.type = "entity_created"
    /\ status' = get_status
    /\ rel' = ConfigChangedRelations
    /\ more' = ConfigChangedMore
    /\ raised' = ConfigChangedRaises
    /\ peer' = IF ConfigChangedRaises THEN peer ELSE UpdatedPeer(pending.e, "ACTIVE")
    /\ pending' = NoEvent
    /\ UNCHANGED <<config, has_secrets, leader, result, nextId, profile>>

\* A relation on e is removed, the first (the second is then the endpoint's
\* first) or the second; _on_relation_broken records BROKEN under the
\* relation's name.
RelationBroken(e) ==
    /\ Idle
    /\ rel[e].id # 0
    /\ \/ /\ rel' = [rel EXCEPT ![e] = more[e]]
          /\ more' = [more EXCEPT ![e] = NoRelation]
       \/ /\ more[e].id # 0
          /\ more' = [more EXCEPT ![e] = NoRelation]
          /\ rel' = rel
    /\ peer' = IF e # ETCD \/ has_secrets THEN UpdatedPeer(e, "BROKEN") ELSE peer
    /\ raised' = FALSE
    /\ UNCHANGED <<config, has_secrets, leader, status, result, pending, nextId, profile>>

\* A variant that collects every entry.
removed_relations_All == DOMAIN peer

\* _on_peer_relation_changed
removed_relations == {e \in DOMAIN peer : peer[e] = "BROKEN"}

\* The unit status _on_peer_relation_changed leaves: recomputed by the leader
\* when a relation is recorded BROKEN, untouched otherwise.
PeerChangedStatus == IF leader /\ removed_relations # {} THEN get_status ELSE status

OnPeerRelationChanged ==
    /\ Idle
    /\ raised' = FALSE
    /\ status' = PeerChangedStatus
    /\ peer' = IF leader /\ removed_relations # {}
               THEN [e \in DOMAIN peer |->
                       IF e \in removed_relations /\ rel[e].id = 0
                       THEN "REMOVED" ELSE peer[e]]
               ELSE peer
    /\ UNCHANGED <<config, has_secrets, leader, rel, more, result, pending, nextId, profile>>

\* A variant that also sets the unit status.
GetCredentials_SetsStatus ==
    /\ Idle
    /\ profile.action
    /\ result' = get_credentials_result
    /\ status' = get_status
    /\ raised' = FALSE
    /\ UNCHANGED <<config, has_secrets, leader, rel, more, peer, pending, nextId, profile>>

\* _on_get_credentials_action
GetCredentials ==
    /\ Idle
    /\ profile.action
    /\ result' = get_credentials_result
    /\ raised' = FALSE
    /\ UNCHANGED <<config, has_secrets, leader, rel, more, peer, status, pending, nextId, profile>>

Next ==
    \/ \E s \in profile.sets : SetConfig(s[1], s[2])
    \/ SetLeader
    \/ OnConfigChanged
    \/ OnUpdateStatus
    \/ \E e \in profile.eps : RelationCreated(e)
    \/ \E e \in profile.eps : \E withName \in BOOLEAN : RemotePublish(e, withName)
    \/ \E e \in profile.eps : \E withName \in BOOLEAN : RemotePublishMore(e, withName)
    \/ OnCreated
    \/ OnEntityCreated
    \/ \E e \in profile.eps : RelationBroken(e)
    \/ OnPeerRelationChanged
    \/ GetCredentials

Spec == Init /\ [][Next]_vars

\* Juju runs update-status periodically, and the requirer library emits the
\* event of a relation change in the hook that received the change.  The
\* action only reports; the behaviours with fairness run it with the database
\* endpoint alone.
LiveInit == Init /\ (profile.action => profile.eps = {MYSQL})

LiveSpec ==
    /\ LiveInit
    /\ [][Next]_vars
    /\ WF_vars(OnUpdateStatus)
    /\ WF_vars(OnCreated)
    /\ WF_vars(OnEntityCreated)


\* ------------------------------------------------------------------ claims

\* The option that names the resource of an endpoint's kind.
NameOption(e) ==
    CASE e \in DatabaseNames -> "database-name"
      [] e = KAFKA -> "topic-name"
      [] e = OPENSEARCH -> "index-name"
      [] e = ETCD -> "prefix-name"

ConfiguredName(e) == Get(config, NameOption(e))

\* The resource name relation e was negotiated with: the one the backend
\* published, for etcd the prefix in this application's side of the relation.
NegotiatedName(e) == IF e = ETCD THEN Get(rel[e].own, "prefix") ELSE Get(rel[e].remote, NameKey(e))

\* The backend of relation e has published its credentials: a user's or an
\* entity's, for etcd its five connection fields (the charm has an etcd requirer
\* only on a host with secrets).
HasCredentials(e) ==
    \E r \in {rel[e], more[e]} :
        /\ r.id # 0
        /\ IF e = ETCD
           THEN has_secrets /\ EtcdComplete(r.remote)
           ELSE \/ {"username", "password"} \subseteq DOMAIN r.remote
                \/ "entity-name" \in DOMAIN r.remote

\* The backend of relation e has published some credential field.
PublishedCredentials(e) ==
    \E r \in {rel[e], more[e]} :
        DOMAIN r.remote \cap {"username", "password", "entity-name", "entity-password"} # {}

IsBlocked(st) == st[1] = "blocked"

NoNameConfigured ==
    \A o \in {"database-name", "topic-name", "index-name", "prefix-name"} : ~Truthy(Get(config, o))

\* C1: once a relation of a kind is active with a negotiated name, every
\* config-changed that requests another name for the kind sets a blocked
\* status and leaves the relation's outbound resource name as it was.
C1_RenameBlockedAndNotPropagated ==
    [][\A e \in Endpoints :
          (OnConfigChanged /\ HasCredentials(e) /\ Truthy(NegotiatedName(e))
              /\ ConfiguredName(e) # NegotiatedName(e))
          => (IsBlocked(status')
                 /\ Get(rel'[e].own, NameKey(e)) = Get(rel[e].own, NameKey(e)))]_vars

\* C2: with database-name "foo1" configured (nothing else) and the MySQL
\* relation active for database "foo" (credentials and "foo" published, "foo"
\* requested, no role value published), config-changed sets the status Blocked("To change database
\* name: foo, please remove relation and add it again") and the relation's
\* outbound database field is still "foo".
C2_Scenario ==
    /\ config = [o \in {"database-name"} |-> "foo1"]
    /\ HasCredentials(MYSQL)
    /\ Get(rel[MYSQL].remote, "database") = "foo"
    /\ Get(rel[MYSQL].own, "database") = "foo"
    /\ \A k \in {"entity-type", "extra-user-roles", "extra-group-roles"} :
          ~Truthy(Get(rel[MYSQL].remote, k))

C2_DatabaseRenameBlocked ==
    [][(OnConfigChanged /\ C2_Scenario)
          => /\ status' = BlockedStatus("To change database name: foo, please remove relation and add it again")
             /\ Get(rel'[MYSQL].own, "database") = "foo"]_vars

C2_Witness ==
    /\ C2_Scenario
    /\ leader
    /\ status = BlockedStatus("To change database name: foo, please remove relation and add it again")

\* C3: when get-credentials succeeds, the result has a sub-object for exactly
\* the endpoints whose backend has published its credentials.
C3_OneSubObjectPerActiveBackend ==
    [][(GetCredentials /\ result'.ok)
          => DOMAIN result'.subs = {e \in Endpoints : HasCredentials(e)}]_vars

\* C4: with none of the four resource names configured, get-credentials fails
\* with the "not specified in the config" message and the result {"ok": False},
\* whatever relations exist, and raises nothing.
C4_NothingConfiguredFails ==
    [][(GetCredentials /\ NoNameConfigured)
          => /\ result' = Failed("The database name, topic name, index name, or prefix is not specified in the config.")
             /\ ~raised']_vars

C4_Witness ==
    /\ NoNameConfigured
    /\ \E e \in Endpoints : HasCredentials(e)
    /\ result = Failed("The database name, topic name, index name, or prefix is not specified in the config.")

\* C5: with a resource name configured and no backend that has published a
\* credential field, get-credentials fails with the "only after relation is
\* created" message and the result {"ok": False}.
C5_NoCredentialsFails ==
    [][(GetCredentials /\ ~NoNameConfigured /\ \A e \in Endpoints : ~PublishedCredentials(e))
          => result' = Failed("The action can be run only after relation is created.")]_vars

C5_Witness ==
    /\ ~NoNameConfigured
    /\ \E e \in Endpoints : rel[e].id # 0
    /\ \A e \in Endpoints : ~PublishedCredentials(e)
    /\ result = Failed("The action can be run only after relation is created.")

\* The steps that run _on_config_changed.
Reconcile == OnConfigChanged \/ OnCreated \/ OnEntityCreated

NeedsInput == BlockedStatus("Please specify either topic, index, database name, or prefix")

\* requested-entities-secret is unset, or names a secret the unit can read on a
\* host with secrets.
SecretUsable ==
    \/ "requested-entities-secret" \notin DOMAIN config
    \/ config["requested-entities-secret"] = SecretReadable /\ has_secrets

\* C6 as stated: with every resource name empty, config-changed sets the "Please
\* specify" status and writes nothing to any relation.
C6_NeedsInputAlways ==
    [][(Reconcile /\ NoNameConfigured) => (status' = NeedsInput /\ rel' = rel /\ more' = more)]_vars

\* C6 amended: with every resource name empty, config-changed writes nothing to
\* any relation, and sets the "Please specify" status when
\* requested-entities-secret is unset or usable, a blocked status about the
\* secret otherwise.
C6_NeedsInputUnlessSecret ==
    [][(Reconcile /\ NoNameConfigured)
          => /\ rel' = rel
             /\ more' = more
             /\ SecretUsable => status' = NeedsInput
             /\ ~SecretUsable =>
                  status' \in {BlockedStatus("Cannot use requested-entities-secret without secrets"),
                               BlockedStatus("Unable to access requested-entities-secret")}]_vars

C6_Witness ==
    /\ NoNameConfigured
    /\ leader
    /\ \E e \in Endpoints : rel[e].id # 0 /\ rel[e].own # EmptyBag
    /\ status = NeedsInput

\* C7: with a resource name configured, the topic unset or acceptable, no
\* requested-entities-secret and no backend that has published a credential
\* field, config-changed sets the status Blocked("Please relate the
\* data-integrator with the desired product"), whatever the names and the role
\* options are.
C7_RelateMe ==
    [][(OnConfigChanged
          /\ ~NoNameConfigured
          /\ Get(config, "topic-name") # "*"
          /\ "requested-entities-secret" \notin DOMAIN config
          /\ \A e \in Endpoints : ~PublishedCredentials(e))
          => status' = BlockedStatus("Please relate the data-integrator with the desired product")]_vars

C7_Witness ==
    /\ status = BlockedStatus("Please relate the data-integrator with the desired product")
    /\ rel[MYSQL].id # 0
    /\ ~PublishedCredentials(MYSQL)
    /\ Get(config, "database-name") = "foo1"
    /\ {"topic-name", "entity-type", "extra-user-roles", "extra-group-roles"} \subseteq DOMAIN config

\* Relation e is the only relation, its backend published no role field, and the
\* configuration has no unacceptable topic and no requested-entities-secret.
OnlyRelation(e) ==
    /\ \A f \in Endpoints \ {e} : rel[f].id = 0
    /\ more[e].id = 0
    /\ DOMAIN rel[e].remote \cap {"entity-type", "extra-user-roles", "extra-group-roles"} = {}
    /\ Get(config, "topic-name") # "*"
    /\ "requested-entities-secret" \notin DOMAIN config

\* C8: when the backend of the only relation has published its credentials with
\* a resource name equal to the configured one, the created handler sets the
\* status Active.
C8_CreatedSetsActive ==
    [][\A e \in Endpoints \ {ETCD} :
          (OnCreated /\ pending.e = e
              /\ HasCredentials(e)
              /\ Truthy(ConfiguredName(e))
              /\ Get(rel[e].remote, NameKey(e)) = ConfiguredName(e)
              /\ OnlyRelation(e))
          => status' = ActiveStatus]_vars

C8_Witness ==
    \E e \in Endpoints \ {ETCD} :
        /\ HasCredentials(e)
        /\ Truthy(ConfiguredName(e))
        /\ Get(rel[e].remote, NameKey(e)) = ConfiguredName(e)
        /\ Get(peer, e) = "ACTIVE"
        /\ status = ActiveStatus

\* The name is configured and requested on relation e, and the backend has
\* published its credentials.
RoundTrip(e) ==
    /\ Truthy(ConfiguredName(e))
    /\ Get(rel[e].own, NameKey(e)) = ConfiguredName(e)
    /\ HasCredentials(e)

\* C9 as stated: after the round trip, the sub-object get-credentials returns
\* for a backend of any kind is exactly what the backend published.
C9_RoundTripEveryKind ==
    [][\A e \in Endpoints :
          (GetCredentials /\ RoundTrip(e) /\ e \in DOMAIN result'.subs)
          => result'.subs[e] = rel[e].remote]_vars

\* C9 amended: after the round trip, the sub-object get-credentials returns for
\* a database, Kafka or OpenSearch backend is exactly what the backend
\* published; the one for etcd holds the five published connection fields and
\* a "prefix" read from this application's side of the relation (None on a unit
\* that is not the leader).
C9_RoundTrip ==
    [][\A e \in Endpoints :
          (GetCredentials /\ RoundTrip(e) /\ e \in DOMAIN result'.subs)
          => IF e # ETCD
             THEN result'.subs[e] = rel[e].remote
             ELSE /\ DOMAIN result'.subs[e] = DOMAIN rel[e].remote \cup {"prefix"}
                  /\ \A k \in DOMAIN rel[e].remote : result'.subs[e][k] = rel[e].remote[k]
                  /\ result'.subs[e]["prefix"] = (IF leader THEN Get(rel[e].own, "prefix") ELSE None)]_vars

C9_Witness ==
    /\ RoundTrip(MYSQL)
    /\ result.ok
    /\ MYSQL \in DOMAIN result.subs
    /\ {"username", "password", "database"} \subseteq DOMAIN result.subs[MYSQL]
    /\ result.subs[MYSQL] = rel[MYSQL].remote

\* The last get-credentials reported a relation on e that is not the present
\* one (every backend publishes its endpoints, which name the relation).
ReportedEarlierRelation(e) ==
    /\ result.ok
    /\ e \in DOMAIN result.subs
    /\ rel[e].id # 0
    /\ Get(result.subs[e], "endpoints") # Generated("endpoints", rel[e].id)

\* The values of the credential fields of a dictionary.
CredentialValues(d) ==
    {d[k] : k \in DOMAIN d \cap {"username", "password", "entity-name", "entity-password",
                                  "endpoints", "uris", "tls-ca"}}

\* C10: when a relation was removed and the backend of a new relation on the
\* endpoint has published new credentials, get-credentials (with a resource
\* name configured) returns the new
\* relation's credentials, differing from the earlier result, with no
\* credential of the removed relation.
C10_Fresh ==
    [][\A e \in Endpoints :
          (GetCredentials /\ ~NoNameConfigured /\ ReportedEarlierRelation(e)
              /\ HasCredentials(e))
          => /\ result'.ok
             /\ e \in DOMAIN result'.subs
             /\ result'.subs[e] # result.subs[e]
             /\ CredentialValues(result'.subs[e]) = CredentialValues(rel[e].remote)
             /\ CredentialValues(result'.subs[e]) \cap CredentialValues(result.subs[e]) = {}]_vars

\* C11: every step that changes the peer application data is taken by a unit
\* that is the leader when it writes.
C11_PeerWrittenByLeaderOnly ==
    [][peer' # peer => leader]_vars

\* The three writers have acted (ACTIVE, BROKEN, then REMOVED) and the
\* leadership has moved away since.
C11_Witness ==
    /\ ~leader
    /\ \E e \in DOMAIN peer : peer[e] = "REMOVED"

\* Relation e is the only relation, requested with the configured resource
\* name, its backend has published its credentials, and the configuration has
\* no unacceptable topic and no requested-entities-secret.
SoleActiveBackend(e) ==
    /\ \A f \in Endpoints \ {e} : rel[f].id = 0
    /\ more[e].id = 0
    /\ HasCredentials(e)
    /\ Truthy(ConfiguredName(e))
    /\ Get(rel[e].own, NameKey(e)) = ConfiguredName(e)
    /\ Get(config, "topic-name") # "*"
    /\ "requested-entities-secret" \notin DOMAIN config

RoleInfoBlocked == BlockedStatus("To change role info, please remove relation and add it again")

\* C12: when a role option (entity-type, entity-permissions, extra-user-roles,
\* extra-group-roles) differs from what the active backend's relation was
\* requested with, an unset option that is now set included, config-changed
\* sets the status Blocked("To change role info, ...").
C12_RoleChangeBlocked ==
    [][\A e \in Endpoints \ {ETCD} : \A k \in RoleKeys :
          (OnConfigChanged /\ SoleActiveBackend(e) /\ Get(config, k) # Get(rel[e].own, k))
          => status' = RoleInfoBlocked]_vars

\* The name-conflict statuses: "To change <kind>: <name>, please remove relation
\* and add it again" for a resource kind and a negotiated name (or None).
NameConflictStatuses ==
    {BlockedStatus(RemoveRelationMessage(t, n)) :
        t \in {"topic", "index", "prefix", "database name"},
        n \in {None, "foo", "foo1", "bar", "bar1", "idx", "idx1", "/test/", "/test1/"}}

\* C13: when config-changed or update-status yields a name-conflict status, the
\* status the handler computes when run again on the state it left (same
\* configuration, same backend data, same leadership) is the same.
C13_BlockedStatusIdempotent ==
    [][((OnConfigChanged \/ OnUpdateStatus) /\ status' \in NameConflictStatuses)
          => get_status' = status']_vars

\* C14: the outbound data a handler that runs _on_config_changed leaves is what
\* running _on_config_changed again on that state (same configuration,
\* leadership and backend data) would leave.
C14_PropagationIdempotent ==
    [][Reconcile => (ConfigChangedRelations' = rel' /\ ConfigChangedMore' = more')]_vars

\* The leader has propagated the configured name into a relation whose backend
\* has not published yet.
C14_Witness ==
    /\ leader
    /\ status = BlockedStatus("Please relate the data-integrator with the desired product")
    /\ \E e \in Endpoints :
          /\ rel[e].id # 0
          /\ Truthy(ConfiguredName(e))
          /\ Get(rel[e].own, NameKey(e)) = ConfiguredName(e)

\* C15: no handler ends with an unhandled exception.
C15_NoHandlerRaises == ~raised

\* C16: when requested-entities-secret is set and the host has no secrets or
\* the secret cannot be read, a handler that computes the status sets the
\* secret's blocked status, whatever the resource names are, and does not raise.
C16_SecretBlockedNoCrash ==
    [][((Reconcile \/ OnUpdateStatus) /\ ~SecretUsable)
          => /\ status' = (IF has_secrets
                           THEN BlockedStatus("Unable to access requested-entities-secret")
                           ELSE BlockedStatus("Cannot use requested-entities-secret without secrets"))
             /\ ~raised']_vars

\* The unit shows Active although no backend has published credentials any
\* more: the relation of the only active backend was removed.
ActiveAfterTeardown ==
    /\ status = ActiveStatus
    /\ \A e \in Endpoints : ~HasCredentials(e)

RelateMe == BlockedStatus("Please relate the data-integrator with the desired product")

\* C18: from the status Blocked("To change database name: foo, ...") with
\* database-name "foo1", once the relation is removed config-changed sets
\* Blocked("Please relate ...") and the configuration keeps "foo1".
C18_RecoverByRemoval ==
    [][(OnConfigChanged
          /\ status = BlockedStatus("To change database name: foo, please remove relation and add it again")
          /\ Get(config, "database-name") = "foo1"
          /\ Get(config, "topic-name") # "*"
          /\ "requested-entities-secret" \notin DOMAIN config
          /\ \A e \in Endpoints : rel[e].id = 0)
          => /\ status' = RelateMe
             /\ Get(config', "database-name") = "foo1"]_vars

\* The relation that was active has been removed (the leader recorded it) and
\* config-changed has asked for a relation, the new name still configured.
C18_Witness ==
    /\ status = RelateMe
    /\ Get(config, "database-name") = "foo1"
    /\ \A e \in Endpoints : rel[e].id = 0
    /\ Get(peer, MYSQL) = "BROKEN"

\* The resource kind as the name-conflict message spells it.
KindType(e) ==
    CASE e \in DatabaseNames -> "database name"
      [] e = KAFKA -> "topic"
      [] e = OPENSEARCH -> "index"
      [] e = ETCD -> "prefix"

\* The status is the name conflict of the kind of relation e.
InNameConflict(e) ==
    \E n \in {None, "foo", "foo1", "bar", "bar1", "idx", "idx1", "/test/", "/test1/"} :
        status = BlockedStatus(RemoveRelationMessage(KindType(e), n))

\* Relation e is the only relation, its backend has published its credentials,
\* the configured resource name is the negotiated one again, and nothing else
\* in the configuration blocks or is to be sent (topic, secret, role options,
\* client certificate).
NameCorrected(e) ==
    /\ \A f \in Endpoints \ {e} : rel[f].id = 0
    /\ more[e].id = 0
    /\ HasCredentials(e)
    /\ Truthy(NegotiatedName(e))
    /\ ConfiguredName(e) = NegotiatedName(e)
    /\ Get(config, "topic-name") # "*"
    /\ "requested-entities-secret" \notin DOMAIN config
    /\ \A k \in RoleKeys : k \notin DOMAIN config /\ k \notin DOMAIN rel[e].remote
    /\ e = ETCD => Get(rel[e].own, "mtls-cert") = mtls_client_cert

\* C19: for every backend kind, the config-changed that meets a conflicting
\* name leaves the active backend's outbound data as it was, and from the
\* name-conflict status, with the name set back to the negotiated one,
\* config-changed sets Active and leaves the outbound data as it was.
C19_RecoverByCorrection ==
    [][\A e \in Endpoints :
          /\ (OnConfigChanged /\ HasCredentials(e) /\ Truthy(NegotiatedName(e))
                 /\ ConfiguredName(e) # NegotiatedName(e))
             => rel'[e].own = rel[e].own
          /\ (OnConfigChanged /\ InNameConflict(e) /\ NameCorrected(e))
             => (status' = ActiveStatus /\ rel'[e].own = rel[e].own)]_vars

TopicBlocked == BlockedStatus("Please pass an acceptable topic value")

RelationsOf(e) == {r \in {rel[e], more[e]} : r.id # 0}

\* The kind of endpoint e is configured with a name the requirer accepts.
KindConfigured(e) ==
    /\ Truthy(ConfiguredName(e))
    /\ e = KAFKA => ConfiguredName(e) # "*"

\* C21: when the leader's reconcile detects no conflict (no role-info and no
\* name-conflict status) and completes, every relation of every configured
\* kind holds the configured resource name and the configured user roles in
\* its outbound data, a second relation of the kind included.
C21_PropagatedToEveryRelation ==
    [][(Reconcile /\ leader /\ ~raised'
          /\ status' \notin NameConflictStatuses \cup {RoleInfoBlocked})
          => \A e \in Endpoints : KindConfigured(e) =>
                \A r \in {rel'[e], more'[e]} : r.id # 0 =>
                    /\ Get(r.own, NameKey(e)) = ConfiguredName(e)
                    /\ e # ETCD => Get(r.own, "extra-user-roles") = Get(config, "extra-user-roles")]_vars

\* C22: the peer data holds status names only; on the leader a created/ready
\* event leaves the relation's entry ACTIVE and a relation-broken event leaves
\* the removed relation's entry BROKEN, while the entry of another relation of
\* the same kind that is recorded ACTIVE stays ACTIVE.
C22_EntryPerRelation ==
    [][/\ \A k \in DOMAIN peer' : peer'[k] \in Statuses
       /\ (OnCreated /\ leader /\ ~raised') => Get(peer', pending.e) = "ACTIVE"
       /\ \A e \in Endpoints :
             /\ (RelationBroken(e) /\ leader /\ (e # ETCD \/ has_secrets))
                   => (rel'[e].id = 0 => Get(peer', e) = "BROKEN")
             /\ (RelationBroken(e) /\ leader /\ Get(peer, e) = "ACTIVE"
                    /\ rel'[e].id # 0 /\ HasCredentials(e)')
                   => Get(peer', e) = "ACTIVE"]_vars

\* C23 as stated: with no resource name configured, reconcile sets a waiting
\* status when no relation was ever created, and a blocked status when a
\* backend has published its credentials.
C23_WaitingThenBlocked ==
    [][/\ (Reconcile /\ NoNameConfigured /\ SecretUsable /\ nextId = 1)
             => status'[1] = "waiting"
       /\ (Reconcile /\ NoNameConfigured /\ SecretUsable /\ \E e \in Endpoints : HasCredentials(e))
             => IsBlocked(status')]_vars

\* C23: with no resource name configured (and requested-entities-secret unset
\* or usable), reconcile sets the one status Blocked("Please specify either
\* topic, index, database name, or prefix"), whether no relation was ever
\* created or a backend has published its credentials.
C23_OneStatus ==
    [][(Reconcile /\ NoNameConfigured /\ SecretUsable
           /\ (nextId = 1 \/ \E e \in Endpoints : HasCredentials(e)))
          => status' = NeedsInput]_vars

\* The configuration was cleared after the database backend negotiated a name.
C23_Witness ==
    /\ status = NeedsInput
    /\ NoNameConfigured
    /\ HasCredentials(MYSQL)
    /\ Truthy(Get(rel[MYSQL].remote, "database"))

\* The status was asked for before any relation was created.
C23_WitnessUnrelated ==
    /\ status = NeedsInput
    /\ NoNameConfigured
    /\ nextId = 1

RoleSource ==
    LET order == <<MYSQL, MONGODB, KAFKA, OPENSEARCH, ETCD>>
        idx == {i \in DOMAIN order : rel[order[i]].id # 0 /\ (order[i] = ETCD => has_secrets)}
    IN IF idx = {} THEN "" ELSE order[CHOOSE i \in idx : \A j \in idx : i <= j]

\* A role value in effect (published by the backend; for etcd read by the
\* leader from this side) is set and differs from the configured one.
RoleChanged ==
    /\ RoleSource # ""
    /\ \E k \in {"entity-type", "extra-user-roles", "extra-group-roles"} :
          LET v == IF RoleSource = ETCD
                   THEN (IF leader THEN Get(rel[ETCD].own, k) ELSE None)
                   ELSE Get(rel[RoleSource].remote, k)
          IN Truthy(v) /\ v # Get(config, k)

\* The name in effect on the first relation of e, as the unit reads it.
NameInEffect(e) ==
    IF e = ETCD THEN (IF leader /\ has_secrets THEN Get(rel[e].own, "prefix") ELSE None)
    ELSE Get(rel[e].remote, NameKey(e))

\* The backend of kind e has credentials and the name in effect is not the
\* configured one; for the database families, some family's negotiated name.
KindConflict(e) ==
    IF e \in DatabaseNames
    THEN /\ \E n \in DatabaseNames : HasCredentials(n)
         /\ \E n \in DatabaseNames : Truthy(NameInEffect(n)) /\ NameInEffect(n) # ConfiguredName(n)
    ELSE HasCredentials(e) /\ NameInEffect(e) # ConfiguredName(e)

FirstNegotiatedDatabase ==
    IF Truthy(NameInEffect(MYSQL)) THEN NameInEffect(MYSQL) ELSE NameInEffect(MONGODB)

\* The status the precedence of C25 yields.
PrecedenceStatus ==
    IF "requested-entities-secret" \in DOMAIN config /\ ~has_secrets
    THEN BlockedStatus("Cannot use requested-entities-secret without secrets")
    ELSE IF ~SecretUsable
    THEN BlockedStatus("Unable to access requested-entities-secret")
    ELSE IF NoNameConfigured THEN NeedsInput
    ELSE IF Get(config, "topic-name") = "*" THEN TopicBlocked
    ELSE IF \A e \in Endpoints : ~HasCredentials(e) THEN RelateMe
    ELSE IF RoleChanged THEN RoleInfoBlocked
    ELSE IF KindConflict(KAFKA)
    THEN BlockedStatus(RemoveRelationMessage("topic", NameInEffect(KAFKA)))
    ELSE IF KindConflict(OPENSEARCH)
    THEN BlockedStatus(RemoveRelationMessage("index", NameInEffect(OPENSEARCH)))
    ELSE IF KindConflict(ETCD)
    THEN BlockedStatus(RemoveRelationMessage("prefix", NameInEffect(ETCD)))
    ELSE IF KindConflict(MYSQL)
    THEN BlockedStatus(RemoveRelationMessage("database name", FirstNegotiatedDatabase))
    ELSE ActiveStatus

NotNegotiated(e) ==
    IF e \in DatabaseNames
    THEN \A n \in DatabaseNames : ~Truthy(Get(rel[n].remote, "database"))
    ELSE IF e = ETCD THEN ~EtcdComplete(rel[e].remote)
    ELSE ~Truthy(Get(rel[e].remote, NameKey(e)))

\* The name-conflict statuses of the kind of e.
KindConflictStatuses(e) ==
    {st \in NameConflictStatuses :
        \E n \in {None, "foo", "foo1", "bar", "bar1", "idx", "idx1", "/test/", "/test1/"} :
            st = BlockedStatus(RemoveRelationMessage(KindType(e), n))}

\* C26: when a kind is configured, its relation exists and its backend has not
\* published a negotiated name, config-changed on the leader leaves the
\* configured name in the relation's outbound data and sets no name-conflict
\* status of that kind.
C26_PropagatedNotBlocked ==
    [][\A e \in Endpoints :
          (OnConfigChanged /\ leader /\ ~raised' /\ KindConfigured(e)
              /\ rel[e].id # 0 /\ NotNegotiated(e))
          => /\ Get(rel'[e].own, NameKey(e)) = ConfiguredName(e)
             /\ status' \notin KindConflictStatuses(e)]_vars

\* No relation's outbound data changes in the step.
OutboundUnchanged ==
    \A e \in Endpoints : rel'[e].own = rel[e].own /\ more'[e].own = more[e].own

\* C27: on a unit that is not the leader, config-changed and the created/ready
\* handlers change the unit status at most, peer-relation-changed and
\* relation-broken change nothing: no relation's outbound data and nothing in
\* the peer data is written.
C27_NonLeaderWritesNothing ==
    [][/\ (~leader /\ (OnConfigChanged \/ OnCreated \/ OnEntityCreated))
             => (OutboundUnchanged /\ peer' = peer)
       /\ (~leader /\ OnPeerRelationChanged)
             => (OutboundUnchanged /\ peer' = peer /\ status' = status)
       /\ \A e \in Endpoints : (~leader /\ RelationBroken(e))
             => (peer' = peer /\ status' = status
                   /\ \A f \in Endpoints \ {e} : rel'[f] = rel[f] /\ more'[f] = more[f])]_vars

\* A unit that is not the leader has handled a created event: the status is
\* set, the relation it did not write to is still empty on this side, and the
\* peer data has no entry.
C27_Witness ==
    /\ ~leader
    /\ status = ActiveStatus
    /\ rel[MYSQL].id # 0
    /\ HasCredentials(MYSQL)
    /\ rel[MYSQL].own = EmptyBag
    /\ Truthy(Get(config, "database-name"))
    /\ peer = EmptyBag

\* C28: get-credentials, succeeding or failing, leaves the unit status, the
\* relations and the peer data as they were, and the result it would report
\* when invoked again right away is the one it reported.
C28_ActionReadOnly ==
    [][GetCredentials
          => /\ status' = status
             /\ rel' = rel /\ more' = more
             /\ peer' = peer
             /\ get_credentials_result' = result']_vars

\* The action succeeded in a state whose status is out of date (the database
\* name was changed and no hook has run yet): it reported and left the status.
C28_Witness ==
    /\ result.ok
    /\ result = get_credentials_result
    /\ status = ActiveStatus
    /\ KindConflict(MYSQL)

\* C29: the leader's peer-relation-changed handler turns an entry into REMOVED
\* exactly when it was BROKEN and no relation of that name exists; every other
\* entry keeps its value; without a BROKEN entry the unit status is left alone.
C29_RemovedOnlyWhenBrokenAndGone ==
    [][(OnPeerRelationChanged /\ leader)
          => /\ DOMAIN peer' = DOMAIN peer
             /\ \A e \in DOMAIN peer :
                   peer'[e] = (IF peer[e] = "BROKEN" /\ rel[e].id = 0 /\ more[e].id = 0
                               THEN "REMOVED" ELSE peer[e])
             /\ (\A e \in DOMAIN peer : peer[e] # "BROKEN") => status' = status]_vars

\* The leader has turned the entry of a removed relation into REMOVED.
C29_Witness ==
    /\ leader
    /\ Get(peer, MYSQL) = "REMOVED"
    /\ rel[MYSQL].id = 0

\* C30: the etcd sub-object of a successful get-credentials result appears
\* only when the backend has published username, uris, endpoints, tls-ca and
\* version; it has exactly the keys prefix, uris, endpoints, username, tls-ca
\* and version; its prefix is the value on this application's side of the
\* relation.
C30_EtcdSubObject ==
    [][(GetCredentials /\ result'.ok /\ ETCD \in DOMAIN result'.subs)
          => /\ rel[ETCD].id # 0
             /\ \A k \in {"username", "uris", "endpoints", "tls-ca", "version"} :
                   Get(rel[ETCD].remote, k) # None
             /\ DOMAIN result'.subs[ETCD]
                   = {"prefix", "uris", "endpoints", "username", "tls-ca", "version"}
             /\ result'.subs[ETCD]["prefix"] = Get(rel[ETCD].own, "prefix")]_vars

\* C31: in every reachable state the topic field on this application's side
\* of a Kafka relation is absent, empty, or a topic the Kafka requirer accepts
\* (not the wildcard "*").
C31_NoUnacceptableTopicWritten ==
    \A r \in {rel[KAFKA], more[KAFKA]} :
        r.id # 0 => Get(r.own, "topic") \in {None, ""} \/ Get(r.own, "topic") # "*"

\* The wildcard was configured after "bar" had been requested on the Kafka
\* relation, and the leader has handled the change.
C31_Witness ==
    /\ leader
    /\ Get(config, "topic-name") = "*"
    /\ status = TopicBlocked
    /\ rel[KAFKA].id # 0
    /\ Get(rel[KAFKA].own, "topic") = "bar"
    /\ ~HasCredentials(KAFKA)

\* The database families whose first relation carries a negotiated database.
NegotiatedFamilies ==
    {e \in DatabaseNames : rel[e].id # 0 /\ Truthy(Get(rel[e].remote, "database"))}

\* C32: on a leader config-changed with a database name configured, the name
\* is written to the first relation of every related database family when no
\* family has a negotiated database, and no database relation is written to
\* when at least one family has one.
C32_AllOrNone ==
    [][(OnConfigChanged /\ leader /\ Truthy(Get(config, "database-name")))
          => IF NegotiatedFamilies = {}
             THEN \A e \in DatabaseNames :
                     rel[e].id # 0 => Get(rel'[e].own, "database") = Get(config, "database-name")
             ELSE \A e \in DatabaseNames : rel'[e] = rel[e] /\ more'[e] = more[e]]_vars

\* MySQL has negotiated "foo"; MongoDB was related later while "foo1" was
\* configured and still requests "foo1" although "foo" is configured again and
\* the leader has handled the change.
C32_Witness ==
    /\ leader
    /\ Get(config, "database-name") = "foo"
    /\ Get(rel[MYSQL].remote, "database") = "foo"
    /\ rel[MONGODB].id # 0
    /\ Get(rel[MONGODB].own, "database") = "foo1"
    /\ status = ActiveStatus

\* C33: when the status computed from the current state is Active,
\* get-credentials run in that state succeeds with "ok": true.
C33_ActiveImpliesOk ==
    [][(GetCredentials /\ get_status = ActiveStatus) => result'.ok]_vars

\* The action has succeeded in a state whose computed status is Active.
C33_Witness ==
    /\ result.ok
    /\ result = get_credentials_result
    /\ get_status = ActiveStatus
    /\ \E e \in Endpoints : HasCredentials(e)

\* C34: when get-credentials succeeds, the result has at least one backend
\* sub-object, and a database backend that published username and password
\* has one even when it published no database field.
C34_OkHasSubObject ==
    [][(GetCredentials /\ result'.ok)
          => /\ DOMAIN result'.subs # {}
             /\ \A e \in DatabaseNames :
                   (rel[e].id # 0 /\ Truthy(Get(rel[e].remote, "username"))
                       /\ Truthy(Get(rel[e].remote, "password")))
                   => e \in DOMAIN result'.subs]_vars

\* The endpoints of the kind of e: the database families share one kind.
KindEndpoints(e) == IF e \in DatabaseNames THEN DatabaseNames ELSE {e}

\* C35: a handler sets the status "To change <kind>: <name>, please remove
\* relation and add it again" only when <name> is a non-empty name negotiated
\* on a relation of that kind and differs from the configured name.
C35_ConflictOnlyOnNegotiatedName ==
    [][(OnUpdateStatus \/ OnConfigChanged)
          => \A e \in {MYSQL, KAFKA, OPENSEARCH, ETCD} :
                \A n \in {None, "foo", "foo1", "bar", "bar1", "idx", "idx1", "/test/", "/test1/"} :
                    status' = BlockedStatus(RemoveRelationMessage(KindType(e), n))
                    => /\ Truthy(n)
                       /\ n # ConfiguredName(e)
                       /\ \E f \in KindEndpoints(e) :
                             rel[f].id # 0 /\ NegotiatedName(f) = n]_vars

\* Relation e is the only relation, its backend has published its credentials
\* and the negotiated name is the configured one.
OnlyActiveKind(e) ==
    /\ rel[e].id # 0 /\ more[e].id = 0
    /\ \A f \in Endpoints \ {e} : rel[f].id = 0
    /\ HasCredentials(e)
    /\ Truthy(ConfiguredName(e))
    /\ NegotiatedName(e) = ConfiguredName(e)

\* Another kind than e's is configured; it has no relation.
OtherKindConfigured(e, k) == k \notin KindEndpoints(e) /\ Truthy(ConfiguredName(k))

\* C36: with one kind active under its configured name (no role change, no
\* unusable secret) and another kind configured without a relation, a handler
\* that computes the status sets Active, and no name conflict of the
\* unconnected kind.
C36_KindsIndependent ==
    [][(OnUpdateStatus \/ OnConfigChanged)
          => \A e \in Endpoints : \A k \in {MYSQL, KAFKA, OPENSEARCH, ETCD} :
                (OnlyActiveKind(e) /\ OtherKindConfigured(e, k) /\ SecretUsable /\ ~RoleChanged)
                => status' = ActiveStatus]_vars

\* C37: two states with the same configuration, secrets capability and
\* backend relation data give the same get_status value and the same
\* get-credentials result, whatever the leadership and the peer data are.
C37_DeterministicInInputs ==
    [][(config' = config /\ has_secrets' = has_secrets /\ rel' = rel /\ more' = more)
          => (get_status' = get_status
                 /\ get_credentials_result' = get_credentials_result)]_vars


====
